---- MODULE Spec2Model ----
(***************************************************************************)
(* A model of pyvmw/vcenter.py: the class vcsite, a facade over one lazy   *)
(* connection to a vCenter server.  The server (sessions, inventory,       *)
(* tasks) is the environment: each call draws the server's answers         *)
(* (handshake outcome, inventory fault, task outcome, performance          *)
(* samples) from small sets.                                               *)
(*                                                                         *)
(* Python values: None is the record None, a str argument is Str(s), a     *)
(* dict is a function from keys to values wrapped in Dict, a list is a     *)
(* sequence wrapped in List, an exception leaving the method is Raise.     *)
(* Datastore names and file paths are sequences of characters, because     *)
(* the code splits, concatenates and suffix-matches them.  Message texts   *)
(* are kept without the names the code interpolates into them.             *)
(***************************************************************************)
EXTENDS Integers, Sequences, FiniteSets, TLC

VARIABLES
    conn,        \* self.__conn__ : None or a session handle
    version,     \* self.version  : None or the server's version string
    live,        \* server side: ids of the sessions opened and not yet closed
    vms,         \* server side: the VM inventory, in listing order
    datastores,  \* server side: the datastore inventory, in listing order
    op,          \* name of the last public method called
    args,        \* its arguments
    env,         \* the answers the server gave during the call
    ret,         \* what the call returned (or raised)
    stat,        \* what the call did: handshakes, tasks, ...
    pre          \* conn, version, live and vms as they were before the call

vars == <<conn, version, live, vms, datastores, op, args, env, ret, stat, pre>>

-----------------------------------------------------------------------------
(* Bounds *)

MaxSessions == 2     \* session ids the server can hand out
MaxVMs == 2          \* VMs in an inventory
MaxDevices == 2      \* CD-ROM devices the server accepts per VM
MaxDatastores == 2   \* datastores in an inventory
MaxFiles == 2        \* file entries a datastore search returns

-----------------------------------------------------------------------------
(* Python values *)

None == [t |-> "None"]
Str(s) == [t |-> "str", s |-> s]
Si(i) == [t |-> "si", id |-> i]

\* `not vm` for a name argument: None and "" are falsy
Falsy(v) == v = None \/ v = Str("")

\* str(vm)
PyStr(v) == IF v = None THEN "None" ELSE v.s

RNone == [kind |-> "None"]
Dict(f) == [kind |-> "dict", d |-> f]
BoolDict(f) == [kind |-> "dictb", b |-> f]
List(s) == [kind |-> "list", items |-> s]
Path(p) == [kind |-> "path", p |-> p]
Stats(c, m) == [kind |-> "stats", cpu |-> c, mem |-> m]
Avg(s, n) == [kind |-> "avg", sum |-> s, n |-> n]
Raise(e) == [kind |-> "raise", exc |-> e]
Err(m) == Dict("Error" :> m)
EmptyDict == Dict(<<>>)

-----------------------------------------------------------------------------
(* What one call did *)

Stat0 == [connects |-> 0, handshakes |-> 0, closes |-> 0, noneUse |-> 0,
          reconfig |-> 0, power |-> 0, search |-> 0, perf |-> 0]

StatAdd(a, b) == [k \in DOMAIN Stat0 |-> a[k] + b[k]]

One(k) == [Stat0 EXCEPT ![k] = 1]

-----------------------------------------------------------------------------
(* The server's answers *)

\* SmartConnect succeeds and about is readable; SmartConnect raises;
\* SmartConnect succeeds and reading content.about raises
ConnectOutcomes == {"ok", "refused", "about"}

\* no fault; an inventory read (RetrieveContent, CreateContainerView) raises;
\* WaitForTask raises; the inventory read of the re-query raises
Faults == {"none", "content", "task", "requery"}

AboutVersion == "8.0"

World == [conn |-> conn, version |-> version, live |-> live, vms |-> vms]

\* the id the server gives the next session
NewSid(l) ==
    IF \E i \in 1..MaxSessions : i \notin l
    THEN CHOOSE i \in 1..MaxSessions : i \notin l /\ \A j \in 1..(i-1) : j \in l
    ELSE MaxSessions

-----------------------------------------------------------------------------
(* connect, disconnect *)

\* connect without the `if self.__conn__ is None` test
connect_unguarded(w, c) ==
    LET st == [Stat0 EXCEPT !.connects = 1, !.handshakes = 1]
        id == NewSid(w.live)
    IN  CASE c = "refused" -> [w |-> w, stat |-> st]
          [] c = "about" ->
                [w |-> [w EXCEPT !.conn = Si(id), !.live = @ \cup {id}],
                 stat |-> st]
          [] OTHER ->
                [w |-> [w EXCEPT !.conn = Si(id), !.live = @ \cup {id},
                                 !.version = Str(AboutVersion)],
                 stat |-> st]

connect(w, c) ==
    IF w.conn # None
    THEN [w |-> w, stat |-> One("connects")]
    ELSE LET st == [Stat0 EXCEPT !.connects = 1, !.handshakes = 1]
             id == NewSid(w.live)
         IN  CASE c = "refused" -> [w |-> w, stat |-> st]
               [] c = "about" ->
                     [w |-> [w EXCEPT !.conn = Si(id), !.live = @ \cup {id}],
                      stat |-> st]
               [] OTHER ->
                     [w |-> [w EXCEPT !.conn = Si(id), !.live = @ \cup {id},
                                      !.version = Str(AboutVersion)],
                      stat |-> st]

\* disconnect that forgets to clear the handle and the version
disconnect_keeps(w) ==
    IF w.conn = None
    THEN [w |-> w, stat |-> Stat0]
    ELSE [w |-> [w EXCEPT !.live = @ \ {w.conn.id}], stat |-> One("closes")]

disconnect(w) ==
    IF w.conn = None
    THEN [w |-> w, stat |-> Stat0]
    ELSE [w |-> [w EXCEPT !.live = @ \ {w.conn.id}, !.conn = None,
                          !.version = None],
          stat |-> One("closes")]

\* `if self.__conn__ is None: self.connect()` at the head of a method
ensure(w, c) ==
    IF w.conn = None THEN connect(w, c) ELSE [w |-> w, stat |-> Stat0]

\* self.__conn__.RetrieveContent() and the inventory view built from it:
\* "ok", or the exception it raises
RetrieveContent(w, f) ==
    IF w.conn = None THEN "AttributeError"
    ELSE IF f = "content" THEN "Fault"
    ELSE "ok"

ContentStat(x) == IF x = "AttributeError" THEN One("noneUse") ELSE Stat0

-----------------------------------------------------------------------------
(* Strings the code takes apart *)

HasSlash(s) == \E i \in 1..Len(s) : s[i] = "/"

FirstSlash(s) == CHOOSE i \in 1..Len(s) : s[i] = "/" /\ \A j \in 1..(i-1) : s[j] # "/"

\* iso.split('/', 1)
SplitHead(s) == SubSeq(s, 1, FirstSlash(s) - 1)
SplitTail(s) == SubSeq(s, FirstSlash(s) + 1, Len(s))

\* path.endswith(suffix)
EndsWith(s, suf) ==
    /\ Len(suf) <= Len(s)
    /\ SubSeq(s, Len(s) - Len(suf) + 1, Len(s)) = suf

\* f"[{datastore_name}] {file_path}"
IsoFileName(ds, path) == <<"[">> \o ds \o <<"]", " ">> \o path

\* f"{datastore_name}/{file.path}"
FullPath(ds, path) == ds \o <<"/">> \o path

RECURSIVE SumSeq(_)
SumSeq(s) == IF s = <<>> THEN 0 ELSE Head(s) + SumSeq(Tail(s))

-----------------------------------------------------------------------------
(* Inventory objects *)

ClientBacking == [type |-> "RemoteAtapi"]
IsoBacking(fileName) == [type |-> "Iso", fileName |-> fileName]

\* the device vm_add_cdrom_drive asks for
NewCdrom == [kind |-> "cdrom", backing |-> ClientBacking,
             startConnected |-> FALSE, connected |-> FALSE]

Nic == [kind |-> "nic", label |-> "Network adapter 1", mac |-> "00:50:56:00:00:01"]

DefaultBoot == [efiSecureBootEnabled |-> TRUE, bootOrder |-> <<>>]
CdromBoot == [efiSecureBootEnabled |-> FALSE, bootOrder |-> <<"cdrom">>]

PowerStates == {"poweredOn", "poweredOff", "suspended"}

\* the i-th VM of an inventory; its quick-stats tell the VMs apart
MkVM(n, p, devs, i) ==
    [name |-> n, power |-> p, devices |-> devs, boot |-> DefaultBoot,
     cpu |-> 100 * i, mem |-> i]

MkDatastore(n, files) == [name |-> n, files |-> files]

\* first index of a sequence whose element satisfies the test, 0 if none:
\* `for obj in view: if obj.name == vm: vm_obj = obj; break`
FirstVM(view, n) ==
    IF \E i \in 1..Len(view) : view[i].name = n
    THEN CHOOSE i \in 1..Len(view) :
            view[i].name = n /\ \A j \in 1..(i-1) : view[j].name # n
    ELSE 0

FirstDatastore(n) ==
    IF \E i \in 1..Len(datastores) : datastores[i].name = n
    THEN CHOOSE i \in 1..Len(datastores) :
            datastores[i].name = n /\ \A j \in 1..(i-1) : datastores[j].name # n
    ELSE 0

\* `for device in vm_obj.config.hardware.device: if isinstance(device, VirtualCdrom)`
FirstCdrom(devs) ==
    IF \E i \in 1..Len(devs) : devs[i].kind = "cdrom"
    THEN CHOOSE i \in 1..Len(devs) :
            devs[i].kind = "cdrom" /\ \A j \in 1..(i-1) : devs[j].kind # "cdrom"
    ELSE 0

CdromCount(devs) == Cardinality({i \in 1..Len(devs) : devs[i].kind = "cdrom"})

Names(view) == [i \in 1..Len(view) |-> view[i].name]

-----------------------------------------------------------------------------
(* Inventory queries *)

datastore_list(w, c, f) ==
    LET e == ensure(w, c)
        x == RetrieveContent(e.w, f)
    IN  IF x # "ok"
        THEN [w |-> e.w, ret |-> Err(x), stat |-> StatAdd(e.stat, ContentStat(x))]
        ELSE [w |-> e.w, ret |-> List(Names(datastores)), stat |-> e.stat]

\* task.info.result.file of SearchDatastore_Task: the entries the server
\* returns for the datastore; the code filters them again by suffix
SearchDatastore(ds, pattern) == ds.files

\* the scan keeping the last entry that matches instead of returning the first
LastMatch(files, iso_name) ==
    IF \E i \in 1..Len(files) : EndsWith(files[i], iso_name)
    THEN CHOOSE i \in 1..Len(files) :
            EndsWith(files[i], iso_name)
            /\ \A j \in (i+1)..Len(files) : ~EndsWith(files[j], iso_name)
    ELSE 0

FirstMatch(files, iso_name) ==
    IF \E i \in 1..Len(files) : EndsWith(files[i], iso_name)
    THEN CHOOSE i \in 1..Len(files) :
            EndsWith(files[i], iso_name)
            /\ \A j \in 1..(i-1) : ~EndsWith(files[j], iso_name)
    ELSE 0

find_iso(w, datastore_name, iso_name, c, f) ==
    IF datastore_name = <<>> \/ iso_name = <<>>
    THEN [w |-> w, ret |-> Err("Datastore name and ISO file name are required."),
          stat |-> Stat0]
    ELSE
    LET e == ensure(w, c)
        x == RetrieveContent(e.w, f)
        i == FirstDatastore(datastore_name)
        files == SearchDatastore(datastores[i], iso_name)
        k == FirstMatch(files, iso_name)
        searched == StatAdd(e.stat, One("search"))
    IN  IF x # "ok"
        THEN [w |-> e.w, ret |-> Err(x), stat |-> StatAdd(e.stat, ContentStat(x))]
        ELSE IF i = 0
        THEN [w |-> e.w, ret |-> Err("Datastore not found."), stat |-> e.stat]
        ELSE IF f = "task"
        THEN [w |-> e.w, ret |-> Err("Fault"), stat |-> searched]
        ELSE IF k # 0
        THEN [w |-> e.w, ret |-> Path(FullPath(datastore_name, files[k])),
              stat |-> searched]
        ELSE [w |-> e.w, ret |-> Err("ISO not found in datastore."),
              stat |-> searched]

\* the loop giving up after the first datastore that has no match
FindIsoLoopGivesUp(w, names, iso_name, c, f, st) ==
    IF names = <<>>
    THEN [w |-> w, ret |-> Err("ISO not found in any datastore."), stat |-> st]
    ELSE LET r == find_iso(w, Head(names), iso_name, c, f)
         IN  IF r.ret.kind = "path"
             THEN [w |-> r.w, ret |-> r.ret, stat |-> StatAdd(st, r.stat)]
             ELSE [w |-> r.w, ret |-> Err("ISO not found in any datastore."),
                   stat |-> StatAdd(st, r.stat)]

\* the loop of find_iso_in_all_datastores over the names still to search
RECURSIVE FindIsoLoop(_, _, _, _, _, _)
FindIsoLoop(w, names, iso_name, c, f, st) ==
    IF names = <<>>
    THEN [w |-> w, ret |-> Err("ISO not found in any datastore."), stat |-> st]
    ELSE LET r == find_iso(w, Head(names), iso_name, c, f)
         IN  IF r.ret.kind = "path"
             THEN [w |-> r.w, ret |-> r.ret, stat |-> StatAdd(st, r.stat)]
             ELSE FindIsoLoop(r.w, Tail(names), iso_name, c, f,
                              StatAdd(st, r.stat))

find_iso_in_all_datastores(w, iso_name, c, f) ==
    IF iso_name = <<>>
    THEN [w |-> w, ret |-> Err("ISO file name is required."), stat |-> Stat0]
    ELSE LET l == datastore_list(w, c, f)
         IN  IF l.ret.kind = "dict"
             THEN l
             ELSE FindIsoLoop(l.w, l.ret.items, iso_name, c, f, l.stat)

\* the scan running to the end of the listing and keeping the last match
ScanVraLast(view, k, held, n) ==
    IF \E i \in k..Len(view) : view[i].name = n
    THEN CHOOSE i \in k..Len(view) :
            view[i].name = n /\ \A j \in (i+1)..Len(view) : view[j].name # n
    ELSE held

\* the scan of get_cpu_mem_used: `held` is the loop's variable vm (0 is None)
RECURSIVE ScanVra(_, _, _, _)
ScanVra(view, k, held, n) ==
    IF k > Len(view) THEN 0
    ELSE LET h == IF view[k].name = n THEN k ELSE held
         IN  IF h # 0 THEN h ELSE ScanVra(view, k + 1, h, n)

get_cpu_mem_used(w, vra, c, f) ==
    IF vra = None
    THEN [w |-> w, ret |-> RNone, stat |-> Stat0]
    ELSE
    LET e == ensure(w, c)
        x == RetrieveContent(e.w, f)
        i == ScanVra(e.w.vms, 1, 0, PyStr(vra))
    IN  IF x # "ok"
        THEN [w |-> e.w, ret |-> Raise("UnboundLocalError"),
              stat |-> StatAdd(e.stat, ContentStat(x))]
        ELSE IF i = 0
        THEN [w |-> e.w, ret |-> Raise("ValueError"), stat |-> e.stat]
        ELSE [w |-> e.w, ret |-> Stats(e.w.vms[i].cpu, e.w.vms[i].mem),
              stat |-> e.stat]

get_vm_list(w, c, f) ==
    LET e == ensure(w, c)
        x == RetrieveContent(e.w, f)
    IN  IF x # "ok"
        THEN [w |-> e.w, ret |-> List(<<>>), stat |-> StatAdd(e.stat, ContentStat(x))]
        ELSE [w |-> e.w, ret |-> List(Names(e.w.vms)), stat |-> e.stat]

\* vm_obj.datastore: every VM of the modelled inventories sits on all datastores
VmDatastores(v) == Names(datastores)

list_vm_datastores(w, vm, c, f) ==
    IF Falsy(vm)
    THEN [w |-> w, ret |-> Err("VM name is required."), stat |-> Stat0]
    ELSE
    LET e == ensure(w, c)
        x == RetrieveContent(e.w, f)
        i == FirstVM(e.w.vms, vm.s)
    IN  IF x # "ok"
        THEN [w |-> e.w, ret |-> Err(x), stat |-> StatAdd(e.stat, ContentStat(x))]
        ELSE IF i = 0
        THEN [w |-> e.w, ret |-> Err("VM not found."), stat |-> e.stat]
        ELSE [w |-> e.w, ret |-> List(VmDatastores(e.w.vms[i])), stat |-> e.stat]

-----------------------------------------------------------------------------
(* CD-ROM and boot order *)

\* the server accepts ReconfigVM_Task unless it faults
vm_add_cdrom_drive(w, vm, c, f) ==
    IF Falsy(vm)
    THEN [w |-> w, ret |-> Err("VM name is required."), stat |-> Stat0]
    ELSE
    LET e == ensure(w, c)
        x == RetrieveContent(e.w, f)
        i == FirstVM(e.w.vms, vm.s)
        st == StatAdd(e.stat, One("reconfig"))
    IN  IF x # "ok"
        THEN [w |-> e.w, ret |-> Err(x), stat |-> StatAdd(e.stat, ContentStat(x))]
        ELSE IF i = 0
        THEN [w |-> e.w, ret |-> Dict(vm.s :> "Not Found"), stat |-> e.stat]
        ELSE IF f = "task"
        THEN [w |-> e.w, ret |-> Err("Fault"), stat |-> st]
        ELSE [w |-> [e.w EXCEPT !.vms[i].devices = Append(@, NewCdrom)],
              ret |-> Dict(vm.s :> "CD-ROM drive added successfully"),
              stat |-> st]

\* vm_cdrom_load_iso without the `if not cdrom_device` test: setting the
\* backing of None raises inside the try block
vm_cdrom_load_iso_unchecked(w, vm, iso, c, f) ==
    IF Falsy(vm) \/ iso = <<>>
    THEN [w |-> w, ret |-> Err("VM name and ISO file path are required."),
          stat |-> Stat0]
    ELSE
    LET e == ensure(w, c)
        x == RetrieveContent(e.w, f)
        i == FirstVM(e.w.vms, vm.s)
        datastore_name == SplitHead(iso)
        file_path == SplitTail(iso)
        d == FirstDatastore(datastore_name)
        k == FirstCdrom(e.w.vms[i].devices)
        st == StatAdd(e.stat, One("reconfig"))
    IN  IF x # "ok"
        THEN [w |-> e.w, ret |-> Err(x), stat |-> StatAdd(e.stat, ContentStat(x))]
        ELSE IF i = 0
        THEN [w |-> e.w, ret |-> Dict(vm.s :> "Not Found"), stat |-> e.stat]
        ELSE IF ~HasSlash(iso)
        THEN [w |-> e.w, ret |-> Err("Invalid ISO path format"), stat |-> e.stat]
        ELSE IF d = 0
        THEN [w |-> e.w, ret |-> Err("Datastore not found in vCenter."),
              stat |-> e.stat]
        ELSE IF k = 0
        THEN [w |-> e.w, ret |-> Err("AttributeError"), stat |-> e.stat]
        ELSE IF f = "task"
        THEN [w |-> e.w, ret |-> Err("Fault"), stat |-> st]
        ELSE [w |-> [e.w EXCEPT !.vms[i].devices[k] =
                        [@ EXCEPT !.backing = IsoBacking(IsoFileName(datastore_name, file_path)),
                                  !.startConnected = TRUE, !.connected = TRUE]],
              ret |-> Dict(vm.s :> "ISO loaded successfully"),
              stat |-> st]

vm_cdrom_load_iso(w, vm, iso, c, f) ==
    IF Falsy(vm) \/ iso = <<>>
    THEN [w |-> w, ret |-> Err("VM name and ISO file path are required."),
          stat |-> Stat0]
    ELSE
    LET e == ensure(w, c)
        x == RetrieveContent(e.w, f)
        i == FirstVM(e.w.vms, vm.s)
        datastore_name == SplitHead(iso)
        file_path == SplitTail(iso)
        d == FirstDatastore(datastore_name)
        k == FirstCdrom(e.w.vms[i].devices)
        st == StatAdd(e.stat, One("reconfig"))
    IN  IF x # "ok"
        THEN [w |-> e.w, ret |-> Err(x), stat |-> StatAdd(e.stat, ContentStat(x))]
        ELSE IF i = 0
        THEN [w |-> e.w, ret |-> Dict(vm.s :> "Not Found"), stat |-> e.stat]
        ELSE IF ~HasSlash(iso)
        THEN [w |-> e.w, ret |-> Err("Invalid ISO path format"), stat |-> e.stat]
        ELSE IF d = 0
        THEN [w |-> e.w, ret |-> Err("Datastore not found in vCenter."),
              stat |-> e.stat]
        ELSE IF k = 0
        THEN [w |-> e.w, ret |-> Dict(vm.s :> "No CD-ROM drive found"),
              stat |-> e.stat]
        ELSE IF f = "task"
        THEN [w |-> e.w, ret |-> Err("Fault"), stat |-> st]
        ELSE [w |-> [e.w EXCEPT !.vms[i].devices[k] =
                        [@ EXCEPT !.backing = IsoBacking(IsoFileName(datastore_name, file_path)),
                                  !.startConnected = TRUE, !.connected = TRUE]],
              ret |-> Dict(vm.s :> "ISO loaded successfully"),
              stat |-> st]

vm_has_cdrom_drive(w, vm, c, f) ==
    IF Falsy(vm)
    THEN [w |-> w, ret |-> Err("VM name is required."), stat |-> Stat0]
    ELSE
    LET e == ensure(w, c)
        x == RetrieveContent(e.w, f)
        i == FirstVM(e.w.vms, vm.s)
    IN  IF x # "ok"
        THEN [w |-> e.w, ret |-> Err(x), stat |-> StatAdd(e.stat, ContentStat(x))]
        ELSE IF i = 0
        THEN [w |-> e.w, ret |-> Dict(vm.s :> "Not Found"), stat |-> e.stat]
        ELSE [w |-> e.w,
              ret |-> BoolDict(vm.s :> (FirstCdrom(e.w.vms[i].devices) # 0)),
              stat |-> e.stat]

\* mac_addresses[adapter_name] = mac_address over the network adapters, in order
RECURSIVE MacAddresses(_, _)
MacAddresses(devs, acc) ==
    IF devs = <<>> THEN acc
    ELSE LET dv == Head(devs)
         IN  IF dv.kind = "nic"
             THEN MacAddresses(Tail(devs),
                    [l \in DOMAIN acc \cup {dv.label} |->
                        IF l = dv.label THEN dv.mac ELSE acc[l]])
             ELSE MacAddresses(Tail(devs), acc)

vm_get_mac_address(w, vm, c, f) ==
    IF Falsy(vm)
    THEN [w |-> w, ret |-> Err("VM name is required."), stat |-> Stat0]
    ELSE
    LET e == ensure(w, c)
        x == RetrieveContent(e.w, f)
        i == FirstVM(e.w.vms, vm.s)
        macs == MacAddresses(e.w.vms[i].devices, <<>>)
    IN  IF x # "ok"
        THEN [w |-> e.w, ret |-> Err(x), stat |-> StatAdd(e.stat, ContentStat(x))]
        ELSE IF i = 0
        THEN [w |-> e.w, ret |-> Err("VM not found."), stat |-> e.stat]
        ELSE IF DOMAIN macs = {}
        THEN [w |-> e.w, ret |-> Err("No network adapters found on the VM."),
              stat |-> e.stat]
        ELSE [w |-> e.w, ret |-> Dict(macs), stat |-> e.stat]

\* vm_set_bios_boot_cdrom submitting the boot reconfiguration before it looks
\* for the CD-ROM device
vm_set_bios_boot_cdrom_early(w, vm, c, f) ==
    IF Falsy(vm)
    THEN [w |-> w, ret |-> Err("VM name is required."), stat |-> Stat0]
    ELSE
    LET e == ensure(w, c)
        x == RetrieveContent(e.w, f)
        i == FirstVM(e.w.vms, vm.s)
        st == StatAdd(e.stat, One("reconfig"))
        done == [e.w EXCEPT !.vms[i].boot = CdromBoot]
    IN  IF x # "ok"
        THEN [w |-> e.w, ret |-> Err(x), stat |-> StatAdd(e.stat, ContentStat(x))]
        ELSE IF i = 0
        THEN [w |-> e.w, ret |-> Err("VM not found."), stat |-> e.stat]
        ELSE IF f = "task"
        THEN [w |-> e.w, ret |-> Err("Fault"), stat |-> st]
        ELSE IF FirstCdrom(e.w.vms[i].devices) = 0
        THEN [w |-> done, ret |-> Dict(vm.s :> "No CD-ROM drive found"),
              stat |-> st]
        ELSE [w |-> done,
              ret |-> Dict(vm.s :> "BIOS boot mode set with CD-ROM as the first boot device"),
              stat |-> st]

vm_set_bios_boot_cdrom(w, vm, c, f) ==
    IF Falsy(vm)
    THEN [w |-> w, ret |-> Err("VM name is required."), stat |-> Stat0]
    ELSE
    LET e == ensure(w, c)
        x == RetrieveContent(e.w, f)
        i == FirstVM(e.w.vms, vm.s)
        st == StatAdd(e.stat, One("reconfig"))
    IN  IF x # "ok"
        THEN [w |-> e.w, ret |-> Err(x), stat |-> StatAdd(e.stat, ContentStat(x))]
        ELSE IF i = 0
        THEN [w |-> e.w, ret |-> Err("VM not found."), stat |-> e.stat]
        ELSE IF FirstCdrom(e.w.vms[i].devices) = 0
        THEN [w |-> e.w, ret |-> Dict(vm.s :> "No CD-ROM drive found"),
              stat |-> e.stat]
        ELSE IF f = "task"
        THEN [w |-> e.w, ret |-> Err("Fault"), stat |-> st]
        ELSE [w |-> [e.w EXCEPT !.vms[i].boot = CdromBoot],
              ret |-> Dict(vm.s :> "BIOS boot mode set with CD-ROM as the first boot device"),
              stat |-> st]

-----------------------------------------------------------------------------
(* Power *)

\* the mapping keeping, for a repeated name, the first listed VM's state
PowerStateMapFirst(view, acc) ==
    [n \in DOMAIN acc \cup {view[i].name : i \in 1..Len(view)} |->
        IF n \in DOMAIN acc THEN acc[n]
        ELSE view[CHOOSE i \in 1..Len(view) :
                    view[i].name = n
                    /\ \A j \in 1..(i-1) : view[j].name # n].power]

\* vm_power_states[vm_obj.name] = str(vm_obj.runtime.powerState), in listing order
RECURSIVE PowerStateMap(_, _)
PowerStateMap(view, acc) ==
    IF view = <<>> THEN acc
    ELSE PowerStateMap(Tail(view),
            [n \in DOMAIN acc \cup {Head(view).name} |->
                IF n = Head(view).name THEN Head(view).power ELSE acc[n]])

get_vm_power_state(w, vm, c, f) ==
    LET e == ensure(w, c)
        x == RetrieveContent(e.w, f)
        vm_power_states == PowerStateMap(e.w.vms, <<>>)
    IN  IF x # "ok"
        THEN [w |-> e.w, ret |-> EmptyDict, stat |-> StatAdd(e.stat, ContentStat(x))]
        ELSE IF ~Falsy(vm)
        THEN IF vm.s \in DOMAIN vm_power_states
             THEN [w |-> e.w, ret |-> Dict(vm.s :> vm_power_states[vm.s]),
                   stat |-> e.stat]
             ELSE [w |-> e.w, ret |-> Dict(vm.s :> "Not Found"), stat |-> e.stat]
        ELSE [w |-> e.w, ret |-> Dict(vm_power_states), stat |-> e.stat]

\* the fault the re-query of a power operation meets
Requery(f) == IF f = "requery" THEN "content" ELSE "none"

\* vm_poweroff without the `already powered off` test
vm_poweroff_always(w, vm, c, f) ==
    IF Falsy(vm)
    THEN [w |-> w, ret |-> Err("VM name is required."), stat |-> Stat0]
    ELSE
    LET e == ensure(w, c)
        x == RetrieveContent(e.w, f)
        i == FirstVM(e.w.vms, vm.s)
        st == StatAdd(e.stat, One("power"))
        done == [e.w EXCEPT !.vms[i].power = "poweredOff"]
        q == get_vm_power_state(done, vm, c, Requery(f))
    IN  IF x # "ok"
        THEN [w |-> e.w, ret |-> Err(x), stat |-> StatAdd(e.stat, ContentStat(x))]
        ELSE IF i = 0
        THEN [w |-> e.w, ret |-> Dict(vm.s :> "Not Found"), stat |-> e.stat]
        ELSE IF f = "task"
        THEN [w |-> e.w, ret |-> Err("Fault"), stat |-> st]
        ELSE [w |-> q.w, ret |-> q.ret, stat |-> StatAdd(st, q.stat)]

\* PowerOffVM_Task, once WaitForTask returns, has left the VM poweredOff
vm_poweroff(w, vm, c, f) ==
    IF Falsy(vm)
    THEN [w |-> w, ret |-> Err("VM name is required."), stat |-> Stat0]
    ELSE
    LET e == ensure(w, c)
        x == RetrieveContent(e.w, f)
        i == FirstVM(e.w.vms, vm.s)
        st == StatAdd(e.stat, One("power"))
        done == [e.w EXCEPT !.vms[i].power = "poweredOff"]
        q == get_vm_power_state(done, vm, c, Requery(f))
    IN  IF x # "ok"
        THEN [w |-> e.w, ret |-> Err(x), stat |-> StatAdd(e.stat, ContentStat(x))]
        ELSE IF i = 0
        THEN [w |-> e.w, ret |-> Dict(vm.s :> "Not Found"), stat |-> e.stat]
        ELSE IF e.w.vms[i].power = "poweredOff"
        THEN [w |-> e.w, ret |-> Dict(vm.s :> "poweredOff"), stat |-> e.stat]
        ELSE IF f = "task"
        THEN [w |-> e.w, ret |-> Err("Fault"), stat |-> st]
        ELSE [w |-> q.w, ret |-> q.ret, stat |-> StatAdd(st, q.stat)]

\* PowerOnVM_Task, once WaitForTask returns, has left the VM poweredOn
vm_poweron(w, vm, c, f) ==
    IF Falsy(vm)
    THEN [w |-> w, ret |-> Err("VM name is required."), stat |-> Stat0]
    ELSE
    LET e == ensure(w, c)
        x == RetrieveContent(e.w, f)
        i == FirstVM(e.w.vms, vm.s)
        st == StatAdd(e.stat, One("power"))
        done == [e.w EXCEPT !.vms[i].power = "poweredOn"]
        q == get_vm_power_state(done, vm, c, Requery(f))
    IN  IF x # "ok"
        THEN [w |-> e.w, ret |-> Err(x), stat |-> StatAdd(e.stat, ContentStat(x))]
        ELSE IF i = 0
        THEN [w |-> e.w, ret |-> Dict(vm.s :> "Not Found"), stat |-> e.stat]
        ELSE IF e.w.vms[i].power = "poweredOn"
        THEN [w |-> e.w, ret |-> Dict(vm.s :> "poweredOn"), stat |-> e.stat]
        ELSE IF f = "task"
        THEN [w |-> e.w, ret |-> Err("Fault"), stat |-> st]
        ELSE [w |-> q.w, ret |-> q.ret, stat |-> StatAdd(st, q.stat)]

-----------------------------------------------------------------------------
(* Performance counters *)

\* QueryStats answers: no entity metrics; an entity without a series; an
\* entity with one series of samples
PerfResults == {<<>>, << <<>> >>, << << <<>> >> >>, << << <<2, 4>> >> >>}

\* result[0].value is `series`, result[0].value[0].value is `samples`;
\* sum(samples) / len(samples) is kept as the pair Avg(sum, len)
get_write_iops(w, vm, f, result) ==
    LET x == RetrieveContent(w, f)
        vm_name == PyStr(vm)
        i == FirstVM(w.vms, vm_name)
        series == result[1]
        samples == series[1]
    IN  IF x # "ok"
        THEN [w |-> w, ret |-> Raise("UnboundLocalError"), stat |-> ContentStat(x)]
        ELSE IF i = 0
        THEN [w |-> w, ret |-> RNone, stat |-> Stat0]
        ELSE IF f = "task"
        THEN [w |-> w, ret |-> Raise("Fault"), stat |-> One("perf")]
        ELSE IF result = <<>>
        THEN [w |-> w, ret |-> RNone, stat |-> One("perf")]
        ELSE IF series = <<>>
        THEN [w |-> w, ret |-> Raise("IndexError"), stat |-> One("perf")]
        ELSE IF samples = <<>>
        THEN [w |-> w, ret |-> Raise("ZeroDivisionError"), stat |-> One("perf")]
        ELSE [w |-> w, ret |-> Avg(SumSeq(samples), Len(samples)),
              stat |-> One("perf")]

get_average_write_latency(w, vm, f, result) ==
    LET x == RetrieveContent(w, f)
        vm_name == PyStr(vm)
        i == FirstVM(w.vms, vm_name)
        series == result[1]
        samples == series[1]
    IN  IF x # "ok"
        THEN [w |-> w, ret |-> Raise("UnboundLocalError"), stat |-> ContentStat(x)]
        ELSE IF i = 0
        THEN [w |-> w, ret |-> RNone, stat |-> Stat0]
        ELSE IF f = "task"
        THEN [w |-> w, ret |-> Raise("Fault"), stat |-> One("perf")]
        ELSE IF result = <<>>
        THEN [w |-> w, ret |-> RNone, stat |-> One("perf")]
        ELSE IF series = <<>>
        THEN [w |-> w, ret |-> Raise("IndexError"), stat |-> One("perf")]
        ELSE IF samples = <<>>
        THEN [w |-> w, ret |-> RNone, stat |-> One("perf")]
        ELSE [w |-> w, ret |-> Avg(SumSeq(samples), Len(samples)),
              stat |-> One("perf")]

-----------------------------------------------------------------------------
(* Callers' arguments *)

VMNames == {"a", "b"}

VmArgs == {None, Str("")} \cup {Str(n) : n \in VMNames}

\* for the methods that start with `if not vm`, which None and "" pass alike
NameArgs == {Str("")} \cup {Str(n) : n \in VMNames}

\* ISO paths given to vm_cdrom_load_iso: empty, without '/', on datastore d,
\* on a datastore no inventory has
IsoArgs == {<<>>, <<"i">>, <<"d", "/", "i">>, <<"x", "/", "i">>}

DatastoreArgs == {<<>>, <<"d">>, <<"x">>}

IsoNames == {<<>>, <<"i">>, <<"j">>}

NoArgs == [n |-> 0]

\* a handshake happens only when the handle is None
Handshakes == IF conn = None THEN ConnectOutcomes ELSE {"ok"}

Answer(c, f, q) == [c |-> c, f |-> f, q |-> q]

-----------------------------------------------------------------------------
(* One step: a caller calls a public method and gets its result *)

Commit(name, a, e, r) ==
    /\ \A i \in 1..Len(r.w.vms) : CdromCount(r.w.vms[i].devices) <= MaxDevices
    /\ conn' = r.w.conn
    /\ version' = r.w.version
    /\ live' = r.w.live
    /\ vms' = r.w.vms
    /\ datastores' = datastores
    /\ op' = name
    /\ args' = a
    /\ env' = e
    /\ ret' = r.ret
    /\ stat' = r.stat
    /\ pre' = World

Connect ==
    \E c \in Handshakes :
        LET r == connect(World, c)
        IN  Commit("connect", NoArgs, Answer(c, "none", <<>>),
                   [w |-> r.w, ret |-> RNone, stat |-> r.stat])

Disconnect ==
    LET r == disconnect(World)
    IN  Commit("disconnect", NoArgs, Answer("ok", "none", <<>>),
               [w |-> r.w, ret |-> RNone, stat |-> r.stat])

\* In the actions below the server's answers are drawn per call; an answer
\* the call never asks for (a task outcome when no task is submitted, a
\* handshake outcome when an argument is rejected first) is left at its
\* default, recognised by the call's result not depending on it.

DatastoreList ==
    \E c \in Handshakes, f \in {"none", "content"} :
        /\ f # "none" => datastore_list(World, c, f) # datastore_list(World, c, "none")
        /\ c # "ok" => datastore_list(World, c, f) # datastore_list(World, "ok", f)
        /\ Commit("datastore_list", NoArgs, Answer(c, f, <<>>),
                  datastore_list(World, c, f))

FindIso ==
    \E d \in DatastoreArgs, n \in IsoNames, c \in Handshakes, f \in {"none", "content", "task"} :
        /\ f # "none" => find_iso(World, d, n, c, f) # find_iso(World, d, n, c, "none")
        /\ c # "ok" => find_iso(World, d, n, c, f) # find_iso(World, d, n, "ok", f)
        /\ Commit("find_iso", [datastore_name |-> d, iso_name |-> n], Answer(c, f, <<>>),
                  find_iso(World, d, n, c, f))

FindIsoInAllDatastores ==
    \E n \in IsoNames, c \in Handshakes, f \in {"none", "content", "task"} :
        /\ f # "none" => find_iso_in_all_datastores(World, n, c, f) # find_iso_in_all_datastores(World, n, c, "none")
        /\ c # "ok" => find_iso_in_all_datastores(World, n, c, f) # find_iso_in_all_datastores(World, n, "ok", f)
        /\ Commit("find_iso_in_all_datastores", [iso_name |-> n], Answer(c, f, <<>>),
                  find_iso_in_all_datastores(World, n, c, f))

GetCpuMemUsed ==
    \E v \in VmArgs, c \in Handshakes, f \in {"none", "content"} :
        /\ f # "none" => get_cpu_mem_used(World, v, c, f) # get_cpu_mem_used(World, v, c, "none")
        /\ c # "ok" => get_cpu_mem_used(World, v, c, f) # get_cpu_mem_used(World, v, "ok", f)
        /\ Commit("get_cpu_mem_used", [vm |-> v], Answer(c, f, <<>>),
                  get_cpu_mem_used(World, v, c, f))

GetVmList ==
    \E c \in Handshakes, f \in {"none", "content"} :
        /\ f # "none" => get_vm_list(World, c, f) # get_vm_list(World, c, "none")
        /\ c # "ok" => get_vm_list(World, c, f) # get_vm_list(World, "ok", f)
        /\ Commit("get_vm_list", NoArgs, Answer(c, f, <<>>),
                  get_vm_list(World, c, f))

ListVmDatastores ==
    \E v \in NameArgs, c \in Handshakes, f \in {"none", "content"} :
        /\ f # "none" => list_vm_datastores(World, v, c, f) # list_vm_datastores(World, v, c, "none")
        /\ c # "ok" => list_vm_datastores(World, v, c, f) # list_vm_datastores(World, v, "ok", f)
        /\ Commit("list_vm_datastores", [vm |-> v], Answer(c, f, <<>>),
                  list_vm_datastores(World, v, c, f))

VmAddCdromDrive ==
    \E v \in NameArgs, c \in Handshakes, f \in {"none", "content", "task"} :
        /\ f # "none" => vm_add_cdrom_drive(World, v, c, f) # vm_add_cdrom_drive(World, v, c, "none")
        /\ c # "ok" => vm_add_cdrom_drive(World, v, c, f) # vm_add_cdrom_drive(World, v, "ok", f)
        /\ Commit("vm_add_cdrom_drive", [vm |-> v], Answer(c, f, <<>>),
                  vm_add_cdrom_drive(World, v, c, f))

VmCdromLoadIso ==
    \E v \in NameArgs, iso \in IsoArgs, c \in Handshakes, f \in {"none", "content", "task"} :
        /\ f # "none" => vm_cdrom_load_iso(World, v, iso, c, f) # vm_cdrom_load_iso(World, v, iso, c, "none")
        /\ c # "ok" => vm_cdrom_load_iso(World, v, iso, c, f) # vm_cdrom_load_iso(World, v, iso, "ok", f)
        /\ Commit("vm_cdrom_load_iso", [vm |-> v, iso |-> iso], Answer(c, f, <<>>),
                  vm_cdrom_load_iso(World, v, iso, c, f))

VmHasCdromDrive ==
    \E v \in NameArgs, c \in Handshakes, f \in {"none", "content"} :
        /\ f # "none" => vm_has_cdrom_drive(World, v, c, f) # vm_has_cdrom_drive(World, v, c, "none")
        /\ c # "ok" => vm_has_cdrom_drive(World, v, c, f) # vm_has_cdrom_drive(World, v, "ok", f)
        /\ Commit("vm_has_cdrom_drive", [vm |-> v], Answer(c, f, <<>>),
                  vm_has_cdrom_drive(World, v, c, f))

VmGetMacAddress ==
    \E v \in NameArgs, c \in Handshakes, f \in {"none", "content"} :
        /\ f # "none" => vm_get_mac_address(World, v, c, f) # vm_get_mac_address(World, v, c, "none")
        /\ c # "ok" => vm_get_mac_address(World, v, c, f) # vm_get_mac_address(World, v, "ok", f)
        /\ Commit("vm_get_mac_address", [vm |-> v], Answer(c, f, <<>>),
                  vm_get_mac_address(World, v, c, f))

VmPoweroff ==
    \E v \in NameArgs, c \in Handshakes, f \in Faults :
        /\ f # "none" => vm_poweroff(World, v, c, f) # vm_poweroff(World, v, c, "none")
        /\ c # "ok" => vm_poweroff(World, v, c, f) # vm_poweroff(World, v, "ok", f)
        /\ Commit("vm_poweroff", [vm |-> v], Answer(c, f, <<>>),
                  vm_poweroff(World, v, c, f))

VmPoweron ==
    \E v \in NameArgs, c \in Handshakes, f \in Faults :
        /\ f # "none" => vm_poweron(World, v, c, f) # vm_poweron(World, v, c, "none")
        /\ c # "ok" => vm_poweron(World, v, c, f) # vm_poweron(World, v, "ok", f)
        /\ Commit("vm_poweron", [vm |-> v], Answer(c, f, <<>>),
                  vm_poweron(World, v, c, f))

VmSetBiosBootCdrom ==
    \E v \in NameArgs, c \in Handshakes, f \in {"none", "content", "task"} :
        /\ f # "none" => vm_set_bios_boot_cdrom(World, v, c, f) # vm_set_bios_boot_cdrom(World, v, c, "none")
        /\ c # "ok" => vm_set_bios_boot_cdrom(World, v, c, f) # vm_set_bios_boot_cdrom(World, v, "ok", f)
        /\ Commit("vm_set_bios_boot_cdrom", [vm |-> v], Answer(c, f, <<>>),
                  vm_set_bios_boot_cdrom(World, v, c, f))

GetVmPowerState ==
    \E v \in VmArgs, c \in Handshakes, f \in {"none", "content"} :
        /\ f # "none" => get_vm_power_state(World, v, c, f) # get_vm_power_state(World, v, c, "none")
        /\ c # "ok" => get_vm_power_state(World, v, c, f) # get_vm_power_state(World, v, "ok", f)
        /\ Commit("get_vm_power_state", [vm |-> v], Answer(c, f, <<>>),
                  get_vm_power_state(World, v, c, f))

GetWriteIops ==
    \E v \in VmArgs, f \in {"none", "content", "task"}, q \in PerfResults :
        /\ f # "none" => get_write_iops(World, v, f, q) # get_write_iops(World, v, "none", q)
        /\ q # <<>> => get_write_iops(World, v, f, q) # get_write_iops(World, v, f, <<>>)
        /\ Commit("get_write_iops", [vm |-> v], Answer("ok", f, q),
                  get_write_iops(World, v, f, q))

GetAverageWriteLatency ==
    \E v \in VmArgs, f \in {"none", "content", "task"}, q \in PerfResults :
        /\ f # "none" => get_average_write_latency(World, v, f, q) # get_average_write_latency(World, v, "none", q)
        /\ q # <<>> => get_average_write_latency(World, v, f, q) # get_average_write_latency(World, v, f, <<>>)
        /\ Commit("get_average_write_latency", [vm |-> v], Answer("ok", f, q),
                  get_average_write_latency(World, v, f, q))

-----------------------------------------------------------------------------
(* Specifications *)

\* __init__: no network I/O, handle and version None
InitSession ==
    /\ conn = None
    /\ version = None
    /\ live = {}
    /\ op = "init"
    /\ args = NoArgs
    /\ env = Answer("ok", "none", <<>>)
    /\ ret = RNone
    /\ stat = Stat0
    /\ pre = [conn |-> None, version |-> None, live |-> {}, vms |-> vms]

DatastoreD == MkDatastore(<<"d">>, << <<"f", "/", "i">> >>)

\* every public method, against a server with at most one VM, named a
Init ==
    /\ vms \in {<<>>, <<MkVM("a", "poweredOn", <<Nic>>, 1)>>}
    /\ datastores = <<DatastoreD>>
    /\ InitSession

Next ==
    \/ Connect
    \/ Disconnect
    \/ DatastoreList
    \/ FindIso
    \/ FindIsoInAllDatastores
    \/ GetCpuMemUsed
    \/ GetVmList
    \/ ListVmDatastores
    \/ VmAddCdromDrive
    \/ VmCdromLoadIso
    \/ VmHasCdromDrive
    \/ VmGetMacAddress
    \/ VmPoweroff
    \/ VmPoweron
    \/ VmSetBiosBootCdrom
    \/ GetVmPowerState
    \/ GetWriteIops
    \/ GetAverageWriteLatency

Spec == Init /\ [][Next]_vars

\* inventories of up to MaxVMs VMs, names repeated or not, in every power state
PowerInventories ==
    UNION {[1..n -> VMNames \X PowerStates] : n \in 0..MaxVMs}

InitPower ==
    /\ \E inv \in PowerInventories :
          vms = [i \in DOMAIN inv |-> MkVM(inv[i][1], inv[i][2], <<Nic>>, i)]
    /\ datastores = <<>>
    /\ InitSession

NextPower ==
    \/ Connect
    \/ Disconnect
    \/ VmPoweroff
    \/ VmPoweron
    \/ GetVmPowerState

SpecPower == InitPower /\ [][NextPower]_vars

\* inventories of up to MaxVMs VMs, names repeated or not, each with a
\* network adapter and no CD-ROM device yet
CdromInventories ==
    UNION {[1..n -> VMNames] : n \in 0..MaxVMs}

InitCdrom ==
    /\ \E inv \in CdromInventories :
          vms = [i \in DOMAIN inv |-> MkVM(inv[i], "poweredOff", <<Nic>>, i)]
    /\ datastores = <<DatastoreD>>
    /\ InitSession

NextCdrom ==
    \/ Connect
    \/ Disconnect
    \/ VmAddCdromDrive
    \/ VmCdromLoadIso
    \/ VmHasCdromDrive

SpecCdrom == InitCdrom /\ [][NextCdrom]_vars

DatastoreNames == {<<"d">>, <<"e">>}

\* file paths: two that end with i, one that ends with j
FilePaths == {<<"f", "/", "i">>, <<"o", "i">>, <<"j">>}

\* what a search of one datastore returns: up to MaxFiles entries, in order
FileLists == UNION {[1..n -> FilePaths] : n \in 0..MaxFiles}

\* datastore d holding any list of files, alone or listed after an empty
\* datastore e, and the empty inventory
FindInventories ==
    {<<>>}
    \cup {<<MkDatastore(<<"d">>, fl)>> : fl \in FileLists}
    \cup {<<MkDatastore(<<"e">>, <<>>), MkDatastore(<<"d">>, fl)>> : fl \in FileLists}

InitFind ==
    /\ vms = <<>>
    /\ datastores \in FindInventories
    /\ InitSession

NextFind ==
    \/ Connect
    \/ Disconnect
    \/ FindIso

SpecFind == InitFind /\ [][NextFind]_vars

\* inventories of up to MaxDatastores datastores, names repeated or not, each
\* empty or holding one file
IsoInventories ==
    UNION {[1..n -> DatastoreNames \X {<<>>, << <<"f", "/", "i">> >>, << <<"j">> >>}] :
            n \in 0..MaxDatastores}

InitIso ==
    /\ vms = <<>>
    /\ \E inv \in IsoInventories :
          datastores = [i \in DOMAIN inv |-> MkDatastore(inv[i][1], inv[i][2])]
    /\ InitSession

NextIso ==
    \/ Connect
    \/ Disconnect
    \/ DatastoreList
    \/ FindIsoInAllDatastores

SpecIso == InitIso /\ [][NextIso]_vars

\* inventories of up to MaxVMs VMs, names repeated or not; quick-stats differ
\* from VM to VM
StatsInventories ==
    UNION {[1..n -> VMNames] : n \in 0..MaxVMs}

InitStats ==
    /\ \E inv \in StatsInventories :
          vms = [i \in DOMAIN inv |-> MkVM(inv[i], "poweredOn", <<Nic>>, i)]
    /\ datastores = <<>>
    /\ InitSession

NextStats ==
    \/ Connect
    \/ Disconnect
    \/ GetCpuMemUsed
    \/ GetVmList

SpecStats == InitStats /\ [][NextStats]_vars

-----------------------------------------------------------------------------
(* Properties *)

\* the methods that need the server
RemoteOps ==
    {"datastore_list", "find_iso", "find_iso_in_all_datastores", "get_vm_list",
     "list_vm_datastores", "vm_add_cdrom_drive", "vm_cdrom_load_iso",
     "vm_has_cdrom_drive", "vm_get_mac_address", "vm_poweroff", "vm_poweron",
     "vm_set_bios_boot_cdrom", "get_vm_power_state", "get_cpu_mem_used",
     "get_write_iops", "get_average_write_latency"}

\* the methods that take the name of the VM they act on
VmTargetedOps ==
    {"vm_add_cdrom_drive", "vm_cdrom_load_iso", "vm_has_cdrom_drive",
     "vm_poweroff", "vm_poweron", "vm_set_bios_boot_cdrom"}

\* the last call read the inventory: it held a handle and the read did not fault
InventoryRead == conn # None /\ env.f # "content"

\* C1: connect() on a session whose handle is set performs no handshake and
\* leaves the handle and the cached version as they were.
C1_ConnectIdempotent ==
    (op = "connect" /\ pre.conn # None) =>
        /\ stat.handshakes = 0
        /\ conn = pre.conn
        /\ version = pre.version
        /\ live = pre.live

C1_Witness ==
    /\ op = "connect"
    /\ pre.conn # None
    /\ pre.version = Str(AboutVersion)
    /\ stat.connects = 1

\* C2: when a step of connect() fails, connect() does not raise, tries the
\* handshake once, and the handle is None afterwards.
C2_FailedConnectLeavesHandleUnset ==
    (op = "connect" /\ pre.conn = None /\ env.c # "ok") =>
        /\ ret.kind # "raise"
        /\ stat.handshakes = 1
        /\ conn = None

\* C3: a method that needs the server, called while the handle is None,
\* calls connect() before it uses the handle.
C3_ConnectBeforeUse ==
    (op \in RemoteOps /\ pre.conn = None /\ stat.noneUse > 0) =>
        /\ stat.connects > 0
        /\ stat.handshakes > 0

\* C4: a public method whose connect() fails, leaving the handle None, does
\* not raise to its caller.
C4_ConnectFailureAbsorbed ==
    (op \in RemoteOps /\ pre.conn = None /\ stat.handshakes > 0 /\ conn = None) =>
        ret.kind # "raise"

\* C5: at most one session opened by this object is live on the server, and
\* it is the one the handle holds: none is live once the handle is None.
C5_AtMostOneLiveSession ==
    /\ Cardinality(live) <= 1
    /\ conn = None => live = {}
    /\ conn # None => live = {conn.id}

C5_Witness ==
    /\ op \in RemoteOps
    /\ pre.conn = None
    /\ stat.handshakes = 1
    /\ conn # None
    /\ live = {conn.id}

\* C6: disconnect() without a handle changes nothing; with a handle it closes
\* that session and leaves handle and version None; the connect() that comes
\* next, explicit or triggered by a method, runs one handshake, and when the
\* handshake succeeds a handle to a live session and the version are stored.
C6_DisconnectThenReconnect ==
    [][ /\ (op' = "disconnect" /\ conn = None) =>
              /\ conn' = conn /\ version' = version
              /\ live' = live /\ vms' = vms
              /\ stat' = Stat0
        /\ (op' = "disconnect" /\ conn # None) =>
              /\ conn' = None /\ version' = None
              /\ conn.id \notin live'
              /\ stat'.closes = 1
              /\ vms' = vms
        /\ (op = "disconnect" /\ stat'.connects > 0) =>
              /\ stat'.handshakes = 1
              /\ env'.c = "ok" =>
                    /\ conn' # None
                    /\ conn'.id \in live'
                    /\ version' = Str(AboutVersion)
      ]_vars

C6_Witness ==
    /\ op = "disconnect"
    /\ pre.conn # None
    /\ pre.version = Str(AboutVersion)
    /\ conn = None
    /\ version = None
    /\ stat.closes = 1

\* C7: a VM-targeted method called with a non-empty name that no inventory VM
\* has (and, where it takes one, a non-empty ISO path) returns {vm: "Not Found"}.
C7_NotFoundPayload ==
    (/\ op \in VmTargetedOps
     /\ ~Falsy(args.vm)
     /\ op = "vm_cdrom_load_iso" => args.iso # <<>>
     /\ InventoryRead
     /\ FirstVM(pre.vms, args.vm.s) = 0) =>
        ret = Dict(args.vm.s :> "Not Found")

\* the state the power method named o short-circuits on
Target(o) == IF o = "vm_poweroff" THEN "poweredOff" ELSE "poweredOn"

\* C8: vm_poweroff on a VM already poweredOff, and vm_poweron on a VM already
\* poweredOn, return {vm: that state}, submit no power task and leave the
\* inventory as it was.
C8_PowerShortCircuit ==
    (/\ op \in {"vm_poweroff", "vm_poweron"}
     /\ ~Falsy(args.vm)
     /\ InventoryRead
     /\ FirstVM(pre.vms, args.vm.s) # 0
     /\ pre.vms[FirstVM(pre.vms, args.vm.s)].power = Target(op)) =>
        /\ ret = Dict(args.vm.s :> Target(op))
        /\ stat.power = 0
        /\ vms = pre.vms

C8_Witness ==
    /\ op = "vm_poweroff"
    /\ ~Falsy(args.vm)
    /\ InventoryRead
    /\ FirstVM(pre.vms, args.vm.s) # 0
    /\ pre.vms[FirstVM(pre.vms, args.vm.s)].power = "poweredOff"
    /\ ret = Dict(args.vm.s :> "poweredOff")

\* C9: a power method whose task completed returns {vm: s}, s being the
\* current power state of the VM the task ran on, the first VM named vm.
C9_PowerResultIsFirstMatch ==
    (/\ op \in {"vm_poweroff", "vm_poweron"}
     /\ stat.power = 1
     /\ env.f = "none") =>
        ret = Dict(args.vm.s :> vms[FirstVM(vms, args.vm.s)].power)

\* the VM of the last call exists and has no CD-ROM device
LoadIsoWithoutCdrom ==
    /\ op = "vm_cdrom_load_iso"
    /\ ~Falsy(args.vm)
    /\ args.iso # <<>>
    /\ InventoryRead
    /\ FirstVM(pre.vms, args.vm.s) # 0
    /\ FirstCdrom(pre.vms[FirstVM(pre.vms, args.vm.s)].devices) = 0

\* C10 as stated: vm_cdrom_load_iso with any non-empty vm and iso, on a VM
\* that exists and has no CD-ROM device, returns {vm: "No CD-ROM drive found"}
\* and submits no reconfiguration task.
C10_Original ==
    LoadIsoWithoutCdrom =>
        /\ ret = Dict(args.vm.s :> "No CD-ROM drive found")
        /\ stat.reconfig = 0

\* C10 amended: on a VM that exists and has no CD-ROM device,
\* vm_cdrom_load_iso submits no reconfiguration task and changes no VM; it
\* returns {vm: "No CD-ROM drive found"} when iso contains '/' and the text
\* before its first '/' names an inventory datastore.
C10_NoCdromNoReconfig ==
    LoadIsoWithoutCdrom =>
        /\ stat.reconfig = 0
        /\ vms = pre.vms
        /\ (HasSlash(args.iso) /\ FirstDatastore(SplitHead(args.iso)) # 0) =>
              ret = Dict(args.vm.s :> "No CD-ROM drive found")

C10_Witness ==
    /\ LoadIsoWithoutCdrom
    /\ HasSlash(args.iso)
    /\ FirstDatastore(SplitHead(args.iso)) # 0
    /\ ret = Dict(args.vm.s :> "No CD-ROM drive found")

\* what find_iso returns for the i-th listed datastore name, on the session
\* as the last call left it
FindIsoOn(i) ==
    find_iso(World, datastores[i].name, args.iso_name, "ok", env.f).ret

\* C11: find_iso_in_all_datastores with a non-empty name returns the listing's
\* error payload when the listing fails; else the find_iso result of the first
\* listed datastore for which find_iso succeeds, having searched no later
\* datastore; else, every find_iso having failed, the "not found in any
\* datastore" payload.
C11_FirstDatastoreWins ==
    (op = "find_iso_in_all_datastores" /\ args.iso_name # <<>>) =>
        LET l == datastore_list(pre, env.c, env.f).ret
            hits == {i \in 1..Len(datastores) : FindIsoOn(i).kind = "path"}
        IN  /\ l.kind = "dict" => (ret = l /\ stat.search = 0)
            /\ (l.kind = "list" /\ hits # {}) =>
                  \E i \in hits :
                      /\ \A j \in hits : i <= j
                      /\ ret = FindIsoOn(i)
                      /\ stat.search = i
            /\ (l.kind = "list" /\ hits = {}) =>
                  /\ ret = Err("ISO not found in any datastore.")
                  /\ stat.search = Len(datastores)

\* the second listed datastore, of another name than the first, is searched
\* and holds the match, or is not searched although it holds one too
C11_Witness ==
    /\ op = "find_iso_in_all_datastores"
    /\ Len(datastores) >= 2
    /\ datastores[1].name # datastores[2].name
    /\ ret.kind = "path"
    /\ FindIsoOn(2).kind = "path"
    /\ \/ stat.search = 2
       \/ stat.search = 1 /\ FindIsoOn(1).kind = "path"

\* an {"Error": message} payload
IsErrorPayload(r) == r.kind = "dict" /\ DOMAIN r.d = {"Error"}

\* the positions of the inventory's datastores named n
DatastoresNamed(n) == {i \in 1..Len(datastores) : datastores[i].name = n}

\* the positions, among the entries the search of the i-th datastore returns,
\* of those whose path ends with suf
EntriesEndingWith(i, suf) ==
    {k \in 1..Len(datastores[i].files) : EndsWith(datastores[i].files[k], suf)}

\* C12: find_iso with an empty argument returns an error payload without
\* contacting the server; with both arguments non-empty and the server
\* answering, it returns an error payload when no datastore has the name or
\* no returned entry ends with iso_name, else datastore_name, '/' and the path
\* of the first returned entry that ends with iso_name.
C12_FindIsoFirstEntry ==
    (op = "find_iso") =>
        /\ (args.datastore_name = <<>> \/ args.iso_name = <<>>) =>
              /\ IsErrorPayload(ret)
              /\ stat = Stat0
              /\ World = pre
        /\ (/\ args.datastore_name # <<>>
            /\ args.iso_name # <<>>
            /\ InventoryRead
            /\ env.f = "none") =>
              IF DatastoresNamed(args.datastore_name) = {}
              THEN IsErrorPayload(ret)
              ELSE \E i \in DatastoresNamed(args.datastore_name) :
                      /\ \A j \in DatastoresNamed(args.datastore_name) : i <= j
                      /\ IF EntriesEndingWith(i, args.iso_name) = {}
                         THEN IsErrorPayload(ret)
                         ELSE \E k \in EntriesEndingWith(i, args.iso_name) :
                                /\ \A h \in EntriesEndingWith(i, args.iso_name) : k <= h
                                /\ ret = Path(args.datastore_name \o <<"/">>
                                              \o datastores[i].files[k])

\* two different entries end with iso_name and the first one is returned
C12_Witness ==
    /\ op = "find_iso"
    /\ ret.kind = "path"
    /\ \E i \in DatastoresNamed(args.datastore_name) :
          /\ Cardinality(EntriesEndingWith(i, args.iso_name)) = 2
          /\ datastores[i].files[1] # datastores[i].files[2]
          /\ ret = Path(args.datastore_name \o <<"/">> \o datastores[i].files[1])

\* the positions of the inventory's VMs named n
VMsNamed(n) == {i \in 1..Len(vms) : vms[i].name = n}

\* the position of the last listed VM named n (one VM has the name)
LastNamed(n) == CHOOSE i \in VMsNamed(n) : \A j \in VMsNamed(n) : j <= i

C14_FalsyVraReturnsNone ==
    (op = "get_cpu_mem_used" /\ Falsy(args.vm)) =>
        /\ ret = RNone
        /\ stat = Stat0
        /\ World = pre

NoSamples(q) == q = <<>> \/ q = << << <<>> >> >>

\* C16: get_write_iops(vm) and get_average_write_latency(vm), for a VM that
\* exists on a session whose server answers, return None and do not raise
\* when the performance query returns no samples.
C16_NoSamplesReturnNone ==
    (/\ op \in {"get_write_iops", "get_average_write_latency"}
     /\ conn # None
     /\ env.f = "none"
     /\ FirstVM(vms, PyStr(args.vm)) # 0
     /\ NoSamples(env.q)) =>
        ret = RNone

\* C17: in every reachable state every VM's hardware device list holds zero
\* or one CD-ROM device.
C17_AtMostOneCdrom ==
    \A i \in 1..Len(vms) : CdromCount(vms[i].devices) <= 1

MutatingOps ==
    {"vm_add_cdrom_drive", "vm_cdrom_load_iso", "vm_set_bios_boot_cdrom",
     "vm_poweroff", "vm_poweron"}

\* the call's arguments fail a validation or a lookup against the inventory
\* the call found: an empty argument, no VM of the name, an ISO path without
\* '/', no datastore of the path's head, no CD-ROM device on the VM
FailsValidation ==
    \/ Falsy(args.vm)
    \/ op = "vm_cdrom_load_iso" /\ args.iso = <<>>
    \/ VMsNamed(args.vm.s) = {}
    \/ /\ op = "vm_cdrom_load_iso"
       /\ \/ \A k \in 1..Len(args.iso) : args.iso[k] # "/"
          \/ \A d \in 1..Len(datastores) :
                \A k \in 1..Len(args.iso) :
                    (args.iso[k] = "/" /\ \A h \in 1..(k-1) : args.iso[h] # "/") =>
                        datastores[d].name # SubSeq(args.iso, 1, k-1)
    \/ /\ op \in {"vm_cdrom_load_iso", "vm_set_bios_boot_cdrom"}
       /\ \E i \in VMsNamed(args.vm.s) :
             /\ \A j \in VMsNamed(args.vm.s) : i <= j
             /\ \A k \in 1..Len(pre.vms[i].devices) :
                   pre.vms[i].devices[k].kind # "cdrom"

\* the payloads the mutating operations return for those failures
FailurePayloads ==
    {Err("VM name is required."), Err("VM name and ISO file path are required."),
     Err("VM not found."), Err("Invalid ISO path format"),
     Err("Datastore not found in vCenter.")}
    \cup {Dict(n :> "Not Found") : n \in VMNames}
    \cup {Dict(n :> "No CD-ROM drive found") : n \in VMNames}

\* C18: a mutating operation whose arguments fail a validation or a lookup,
\* or that returns one of the payloads of those failures, has submitted no
\* reconfiguration and no power task, and every VM's devices, boot options and
\* power state are what they were before the call.
C18_FailedCallChangesNothing ==
    (op \in MutatingOps /\ (FailsValidation \/ ret \in FailurePayloads)) =>
        /\ stat.reconfig = 0
        /\ stat.power = 0
        /\ vms = pre.vms

\* a call on a VM that has a CD-ROM device stops at the datastore lookup
C18_Witness ==
    /\ op = "vm_cdrom_load_iso"
    /\ ret = Err("Datastore not found in vCenter.")
    /\ \E i \in VMsNamed(args.vm.s) : CdromCount(vms[i].devices) = 1
    /\ stat.reconfig = 0
    /\ vms = pre.vms

====
